---- MODULE Spec2Model ----
(***************************************************************************)
(* Model of the result-extraction engine SerpClient.get_multiple_results   *)
(* (src/serp_client.py) and of the query orchestration built on it         *)
(* (src/enrichment_agent.py, src/main.py).                                 *)
(*                                                                         *)
(* A text is a run-length encoded string: a sequence of runs               *)
(* [a |-> atom, n |-> repetitions].  An atom is one character, except for  *)
(* "&amp;" (a five character entity that decodes to "&") and "<b>" (a      *)
(* three character tag).  A page is a sequence of elements                 *)
(* <tag attr>text</tag>; an anchor carries its href as a sequence of URL   *)
(* atoms.                                                                  *)
(***************************************************************************)
EXTENDS Integers, Sequences, FiniteSets, TLC

\* ------------------------------------------------------------------ bounds
MaxElems == 3
MaxCount == 3
MaxDomains == 2
MaxCascadeElems == 4

\* ------------------------------------------------------- program constants
TitleMinLen == 5          \* len(title) > 5
SnippetMinLen == 50       \* len(cleaned) > 50
SnippetMaxLen == 500      \* len(cleaned) < 500
BlockMinLen == 80         \* [^<]{80,400}
BlockMaxLen == 400
StyleMinLen == 100        \* [^<]{100,500}
StyleMaxLen == 500
FallbackMinLen == 50      \* fallback pass: len(cleaned) > 50
TitleCut == 100           \* cleaned[:100]
PoolFactor == 2           \* len(snippets) >= count * 2

URL_NA == <<"URL not available">>
DESC_NA == <<[a |-> "Description not available", n |-> 1]>>

\* ------------------------------------------------------------ text helpers
R(a, n) == [a |-> a, n |-> n]

Min(a, b) == IF a < b THEN a ELSE b

RECURSIVE Merge(_)
\* canonical run-length form: no empty run, no two adjacent runs of one atom
Merge(t) ==
  IF t = << >> THEN << >>
  ELSE IF t[1].n = 0 THEN Merge(Tail(t))
  ELSE IF Len(t) = 1 THEN t
  ELSE IF t[2].n = 0 THEN Merge(<<t[1]>> \o SubSeq(t, 3, Len(t)))
  ELSE IF t[1].a = t[2].a
       THEN Merge(<<R(t[1].a, t[1].n + t[2].n)>> \o SubSeq(t, 3, Len(t)))
       ELSE <<t[1]>> \o Merge(Tail(t))

AtomLen(a) ==
  CASE a = "&amp;" -> 5
    [] a = "<b>" -> 3
    [] a = "Description not available" -> 25
    [] OTHER -> 1

RECURSIVE StrLen(_)
\* len(text): number of characters
StrLen(t) == IF t = << >> THEN 0 ELSE AtomLen(t[1].a) * t[1].n + StrLen(Tail(t))

RECURSIVE Take(_, _)
\* text[:k] of a text of one-character atoms
Take(t, k) ==
  IF k <= 0 \/ t = << >> THEN << >>
  ELSE IF t[1].n >= k THEN <<R(t[1].a, k)>>
  ELSE <<t[1]>> \o Take(Tail(t), k - t[1].n)

IsTag(r) == r.a = "<b>"
NotTag(r) == r.a # "<b>"
IsSpace(r) == r.a = " "

\* re.sub(r'<[^>]+>', '', text)
StripTags(t) == SelectSeq(t, NotTag)

\* html.unescape(text)
unescape_text(t) == [i \in DOMAIN t |-> IF t[i].a = "&amp;" THEN R("&", t[i].n) ELSE t[i]]

RECURSIVE DropLeadingSpace(_)
DropLeadingSpace(t) ==
  IF t = << >> THEN << >>
  ELSE IF IsSpace(t[1]) THEN DropLeadingSpace(Tail(t)) ELSE t

RECURSIVE DropTrailingSpace(_)
DropTrailingSpace(t) ==
  IF t = << >> THEN << >>
  ELSE IF IsSpace(t[Len(t)]) THEN DropTrailingSpace(SubSeq(t, 1, Len(t) - 1)) ELSE t

\* ' '.join(text.split())
JoinSplit(t) ==
  LET m == Merge(t)
      one == [i \in DOMAIN m |-> IF IsSpace(m[i]) THEN R(" ", 1) ELSE m[i]]
  IN DropTrailingSpace(DropLeadingSpace(one))

\* clean_text: remove tags, decode entities, collapse whitespace, strip
clean_text(text) == JoinSplit(unescape_text(StripTags(text)))

LowerAtom(a) ==
  CASE a = "S" -> "s" [] a = "I" -> "i" [] a = "G" -> "g" [] a = "N" -> "n"
    [] OTHER -> a

\* text.lower()
Lower(t) == Merge([i \in DOMAIN t |-> R(LowerAtom(t[i].a), t[i].n)])

\* w in t, for canonical texts w and t of one-character atoms
Contains(t, w) ==
  LET m == Len(w) IN
  IF m = 0 THEN TRUE
  ELSE \E j \in 1..(Len(t) - m + 1) :
         /\ \A k \in 1..m : t[j + k - 1].a = w[k].a
         /\ IF m = 1 THEN t[j].n >= w[1].n
            ELSE /\ t[j].n >= w[1].n
                 /\ t[j + m - 1].n >= w[m].n
                 /\ \A k \in 2..(m - 1) : t[j + k - 1].n = w[k].n

\* the text spelled by a sequence of characters
Word(chars) == Merge([i \in DOMAIN chars |-> R(chars[i], 1)])

StopList ==
  { Word(<<"j","a","v","a","s","c","r","i","p","t">>),
    Word(<<"c","o","o","k","i","e">>),
    Word(<<"s","i","g","n"," ","i","n">>),
    Word(<<"l","o","g"," ","i","n">>) }

\* ------------------------------------------------------------- URL helpers
UrlPrefixes == {"/url?q=", "/search?q="}
Schemes == {"https://", "http://"}

\* atoms of an href that begin with the character & (character entities)
IsAmp(x) == x \in {"&amp;", "&#46;"}

RECURSIVE UpToAmp(_)
\* [^"&]+ : the longest prefix without '&' (an href holds no '"')
UpToAmp(h) ==
  IF h = << >> THEN << >>
  ELSE IF IsAmp(h[1]) THEN << >> ELSE <<h[1]>> \o UpToAmp(Tail(h))

\* [^"]+ : the whole href, entities included
url_capture_mutant(h) == h

url_capture(h) == UpToAmp(h)

\* group 2 of url_pattern on one anchor, << >> when the anchor does not match
url_pattern(href) ==
  LET h == IF href # << >> /\ href[1] \in UrlPrefixes THEN Tail(href) ELSE href
  IN IF Len(h) >= 2 /\ h[1] \in Schemes /\ url_capture(Tail(h)) # << >>
     THEN <<h[1]>> \o url_capture(Tail(h))
     ELSE << >>

\* html.unescape(url)
unescape_url(u) ==
  [i \in DOMAIN u |-> IF u[i] = "&amp;" THEN "&"
                      ELSE IF u[i] = "&#46;" THEN "." ELSE u[i]]

\* w in u, on sequences of URL atoms
UrlContains(u, w) ==
  \E j \in 1..(Len(u) - Len(w) + 1) : SubSeq(u, j, j + Len(w) - 1) = w

BlockList ==
  { <<"google", ".", "com">>,
    <<"gstatic", ".", "com">>,
    <<"youtube", ".", "com", "/redirect">> }

\* any(x in url for x in ['google.com', 'gstatic.com', 'youtube.com/redirect'])
Blocked(u) == \E w \in BlockList : UrlContains(u, w)

\* ---------------------------------------------------------- page scanning
\* an element <tag attr>text</tag>; attr "" is no attribute
Elem(tag, attr, href, text) == [tag |-> tag, attr |-> attr, href |-> href, text |-> text]

\* inner texts of the elements satisfying Test, in page order
MapText(page, Test(_)) ==
  LET s == SelectSeq(page, Test) IN [i \in DOMAIN s |-> s[i].text]

IsTitleElem(e) == e.tag = "h3" /\ e.attr = "class"

\* re.findall(title_pattern, html_content, re.DOTALL)
title_pattern(page) == MapText(page, IsTitleElem)

IsAnchor(e) == e.tag = "a" /\ url_pattern(e.href) # << >>

RECURSIVE url_matches(_)
\* re.findall(url_pattern, html_content), group 2 of each match
url_matches(page) ==
  IF page = << >> THEN << >>
  ELSE (IF IsAnchor(page[1]) THEN <<url_pattern(page[1].href)>> ELSE << >>)
       \o url_matches(Tail(page))

TagFree(t) == \A i \in DOMAIN t : NotTag(t[i])

IsSncf(e) == e.tag = "div" /\ e.attr = "data-sncf"
IsVwiC3b(e) == e.tag = "div" /\ e.attr = "VwiC3b"
IsSt(e) == e.tag = "span" /\ e.attr = "st"
IsStyle(e) ==
  /\ e.tag = "div" /\ e.attr = "style"
  /\ TagFree(e.text)
  /\ StrLen(e.text) >= StyleMinLen /\ StrLen(e.text) <= StyleMaxLen

NumPatterns == 4

\* re.findall(snippet_patterns[k - 1], html_content, re.DOTALL)
snippet_patterns(k, page) ==
  CASE k = 1 -> MapText(page, IsSncf)
    [] k = 2 -> MapText(page, IsVwiC3b)
    [] k = 3 -> MapText(page, IsSt)
    [] k = 4 -> MapText(page, IsStyle)

RECURSIVE Cascade_mutant(_, _, _, _)
\* len(snippets) >= count in place of len(snippets) >= count * 2
Cascade_mutant(k, pool, page, count) ==
  IF k > NumPatterns THEN pool
  ELSE LET p == pool \o snippet_patterns(k, page)
       IN IF Len(p) >= count THEN p ELSE Cascade_mutant(k + 1, p, page, count)

RECURSIVE Cascade(_, _, _, _)
\* the loop over snippet_patterns with its early break
Cascade(k, pool, page, count) ==
  IF k > NumPatterns THEN pool
  ELSE LET p == pool \o snippet_patterns(k, page)
       IN IF Len(p) >= count * PoolFactor THEN p ELSE Cascade(k + 1, p, page, count)

Snippets(page, count) == Cascade(1, << >>, page, count)

RECURSIVE SegAcc(_, _)
\* the pieces of a text between its tags
SegAcc(t, cur) ==
  IF t = << >> THEN <<cur>>
  ELSE IF IsTag(t[1]) THEN <<cur>> \o SegAcc(Tail(t), << >>)
  ELSE SegAcc(Tail(t), Append(cur, t[1]))

Segments(t) == SegAcc(t, << >>)

\* [^<]{80,} in place of [^<]{80,400}
BlockLenOk_mutant(n) == n >= BlockMinLen

BlockLenOk(n) == n >= BlockMinLen /\ n <= BlockMaxLen

IsBlock(seg) == BlockLenOk(StrLen(seg))

RECURSIVE TextRuns(_)
\* every '<'-free run of the page that lies between a '>' and a '<'
TextRuns(page) ==
  IF page = << >> THEN << >>
  ELSE Segments(page[1].text) \o TextRuns(Tail(page))

\* re.findall(r'>([^<]{80,400})<', html_content)
TextBlocks(page) == SelectSeq(TextRuns(page), IsBlock)

\* --------------------------------------------------- get_multiple_results
NonEmpty(t) == t # << >>

\* CleanTitles = [clean_text(t) for t in titles if clean_text(t)]
CleanTitles(page) ==
  LET titles == title_pattern(page)
  IN SelectSeq([i \in DOMAIN titles |-> clean_text(titles[i])], NonEmpty)

NotBlocked(u) == ~Blocked(u)

\* CleanUrls: the captured URLs that pass the blocklist, entities decoded
CleanUrls(page) ==
  LET kept == SelectSeq(url_matches(page), NotBlocked)
  IN [i \in DOMAIN kept |-> unescape_url(kept[i])]

HasStopWord(c) == \E w \in StopList : Contains(Lower(c), w)

\* len(cleaned) >= 50 in place of len(cleaned) > 50
SnippetLenOk_mutant(n) == n >= SnippetMinLen /\ n < SnippetMaxLen

SnippetLenOk(n) == n > SnippetMinLen /\ n < SnippetMaxLen

SnippetOk(c) == SnippetLenOk(StrLen(c)) /\ ~HasStopWord(c)

\* CleanSnippets: the pooled candidates, cleaned, that pass both filters
CleanSnippets(page, count) ==
  LET pool == Snippets(page, count)
  IN SelectSeq([i \in DOMAIN pool |-> clean_text(pool[i])], SnippetOk)

\* len(title) >= 5 in place of len(title) > 5
TitleOk_mutant(t) == t # << >> /\ StrLen(t) >= TitleMinLen

TitleOk(t) == t # << >> /\ StrLen(t) > TitleMinLen

Result(t, u, d) == [title |-> t, url |-> u, description |-> d]

RECURSIVE PrimaryLoop_mutant(_, _, _, _, _, _)
\* url and description taken at the next output position, not at index i
PrimaryLoop_mutant(i, n, T, U, S, res) ==
  IF i > n THEN res
  ELSE LET title == T[i]
           k == Len(res) + 1
           url == IF k <= Len(U) THEN U[k] ELSE << >>
           description == IF k <= Len(S) THEN S[k] ELSE << >>
           rec == Result(title,
                         IF url # << >> THEN url ELSE URL_NA,
                         IF description # << >> THEN description ELSE DESC_NA)
       IN PrimaryLoop_mutant(i + 1, n, T, U, S,
                             IF TitleOk(title) THEN Append(res, rec) ELSE res)

RECURSIVE PrimaryLoop(_, _, _, _, _, _)
\* for i in range(min(count, len(CleanTitles))), i counted from 1
PrimaryLoop(i, n, T, U, S, res) ==
  IF i > n THEN res
  ELSE LET title == T[i]
           url == IF i <= Len(U) THEN U[i] ELSE << >>
           description == IF i <= Len(S) THEN S[i] ELSE << >>
           rec == Result(title,
                         IF url # << >> THEN url ELSE URL_NA,
                         IF description # << >> THEN description ELSE DESC_NA)
       IN PrimaryLoop(i + 1, n, T, U, S,
                      IF TitleOk(title) THEN Append(res, rec) ELSE res)

PrimaryPass(page, count) ==
  LET T == CleanTitles(page)
  IN PrimaryLoop(1, Min(count, Len(T)), T, CleanUrls(page),
                 CleanSnippets(page, count), << >>)

\* 'title': cleaned[:100] + '...'
FallbackTitle(cleaned) == Merge(Take(cleaned, TitleCut) \o <<R(".", 3)>>)

\* the title threshold 5 in place of 50
FallbackOk_mutant(cleaned) == cleaned # << >> /\ StrLen(cleaned) > TitleMinLen

\* the block threshold 80 in place of 50
FallbackOk_mutant80(cleaned) == cleaned # << >> /\ StrLen(cleaned) > BlockMinLen

FallbackOk(cleaned) == cleaned # << >> /\ StrLen(cleaned) > FallbackMinLen

RECURSIVE FallbackLoop_mutant(_, _, _)
\* results.insert(0, ...) in place of results.append(...)
FallbackLoop_mutant(blocks, res, count) ==
  IF blocks = << >> THEN res
  ELSE IF Len(res) >= count THEN res
  ELSE LET cleaned == clean_text(blocks[1])
       IN FallbackLoop_mutant(Tail(blocks),
                              IF FallbackOk(cleaned)
                              THEN <<Result(FallbackTitle(cleaned), URL_NA, cleaned)>> \o res
                              ELSE res,
                              count)

RECURSIVE FallbackLoop(_, _, _)
\* for i, block in enumerate(TextBlocks[:count])
FallbackLoop(blocks, res, count) ==
  IF blocks = << >> THEN res
  ELSE IF Len(res) >= count THEN res
  ELSE LET cleaned == clean_text(blocks[1])
       IN FallbackLoop(Tail(blocks),
                       IF FallbackOk(cleaned)
                       THEN Append(res, Result(FallbackTitle(cleaned), URL_NA, cleaned))
                       ELSE res,
                       count)

FallbackPass(res, page, count) ==
  IF Len(res) < count
  THEN LET tb == TextBlocks(page)
       IN FallbackLoop(SubSeq(tb, 1, Min(count, Len(tb))), res, count)
  ELSE res

DefaultCount == 3

\* the default count=3 used in place of the requested count
get_multiple_results_mutant(page, count) ==
  IF page = << >> THEN << >>
  ELSE LET res == FallbackPass(PrimaryPass(page, DefaultCount), page, DefaultCount)
       IN SubSeq(res, 1, Min(DefaultCount, Len(res)))

\* the list returned for a response body and a count >= 0
get_multiple_results(page, count) ==
  IF page = << >> THEN << >>
  ELSE LET res == FallbackPass(PrimaryPass(page, count), page, count)
       IN SubSeq(res, 1, Min(count, Len(res)))

\* ----------------------------------------------------------------- inputs
X(n) == <<R("x", n)>>
Sp(n) == <<R(" ", n)>>
Tag == <<R("<b>", 1)>>
SignIn == <<R("S", 1), R("I", 1), R("G", 1), R("N", 1), R(" ", 2), R("i", 1), R("n", 1)>>

GoodHref == <<"/url?q=", "https://", "ex", ".", "org">>
BlockedHref == <<"https://", "google", ".", "com">>
EntityHref == <<"https://", "google", "&#46;", "com">>

Elements ==
  { Elem("h3", "class", << >>, X(5)),
    Elem("h3", "class", << >>, X(6)),
    Elem("h3", "class", << >>, Sp(3)),
    Elem("a", "href", GoodHref, X(1)),
    Elem("a", "href", BlockedHref, X(1)),
    Elem("a", "href", EntityHref, X(1)),
    Elem("div", "data-sncf", << >>, X(50)),
    Elem("div", "data-sncf", << >>, X(499)),
    Elem("div", "VwiC3b", << >>, X(30) \o Tag \o X(21)),
    Elem("span", "st", << >>, SignIn \o X(60)),
    Elem("div", "style", << >>, X(100)),
    Elem("div", "style", << >>, X(500)),
    Elem("p", "", << >>, X(79)),
    Elem("p", "", << >>, X(80)),
    Elem("p", "", << >>, X(400)),
    Elem("p", "", << >>, X(401)),
    Elem("p", "", << >>, X(40) \o Sp(40)),
    Elem("p", "", << >>, <<R("&amp;", 16)>>) }

Pages == UNION { [1..n -> Elements] : n \in 0..MaxElems }

Counts == 0..MaxCount

\* ------------------------------------------------------------------ state
\* page, count: the response body and the requested count of the call;
\* results: the returned list; pc: position of the call;
\* snippets, clean_titles, clean_urls, clean_snippets, text_blocks: the
\* locals of get_multiple_results when it returns;
\* n_primary: len(results) when the primary loop ends
VARIABLES page, count, results, pc, snippets, clean_titles, clean_urls,
          clean_snippets, text_blocks, n_primary

callvars == <<page, count, results, pc, snippets, clean_titles, clean_urls,
              clean_snippets, text_blocks, n_primary>>

\* research_competitors: domains, generate_pdf: its arguments; di: index of
\* the domain being researched; qi: number of the next query of
\* research_company; intel: the result lists research_company holds so far;
\* reports: the list of reports; issued, failed: the <<domain index, query>>
\* pairs dispatched so far and those whose dispatch raised; pdf_done: whether
\* generate_report was called; apc: position of research_competitors
VARIABLES domains, generate_pdf, di, qi, intel, reports, issued, failed,
          pdf_done, apc

agentvars == <<domains, generate_pdf, di, qi, intel, reports, issued, failed,
               pdf_done, apc>>

\* one call by a client of SerpClient: caller: the method called; field: the
\* argument of get_top_result; response: what the dispatch of query() met;
\* posts: number of requests.post calls made; raised: the exception that
\* reached the caller ("" when none); ret: the value returned to the caller
VARIABLES caller, field, response, posts, raised, ret

dispatchvars == <<caller, field, response, posts, raised, ret>>

vars == <<callvars, agentvars, dispatchvars>>

NoResponse == [kind |-> "none"]
NoValue == [kind |-> "none"]

DispatchIdle ==
  /\ caller = "get_multiple_results"
  /\ field = "url"
  /\ response = NoResponse
  /\ posts = 0
  /\ raised = ""
  /\ ret = NoValue

AgentIdle ==
  /\ domains = << >>
  /\ generate_pdf = FALSE
  /\ di = 1
  /\ qi = 1
  /\ intel = << >>
  /\ reports = << >>
  /\ issued = {}
  /\ failed = {}
  /\ pdf_done = FALSE
  /\ apc = "idle"

NoLocals ==
  /\ snippets = << >>
  /\ clean_titles = << >>
  /\ clean_urls = << >>
  /\ clean_snippets = << >>
  /\ text_blocks = << >>
  /\ n_primary = 0

\* the assignments of one run of get_multiple_results on body b with count c
Extract(b, c) ==
  /\ page' = b
  /\ count' = c
  /\ results' = get_multiple_results(b, c)
  /\ IF b = << >>
     THEN /\ snippets' = << >>
          /\ clean_titles' = << >>
          /\ clean_urls' = << >>
          /\ clean_snippets' = << >>
          /\ text_blocks' = << >>
          /\ n_primary' = 0
     ELSE /\ snippets' = Snippets(b, c)
          /\ clean_titles' = CleanTitles(b)
          /\ clean_urls' = CleanUrls(b)
          /\ clean_snippets' = CleanSnippets(b, c)
          /\ n_primary' = Len(PrimaryPass(b, c))
          /\ text_blocks' = IF Len(PrimaryPass(b, c)) < c THEN TextBlocks(b) ELSE << >>

Init ==
  /\ page \in Pages
  /\ count \in Counts
  /\ results = << >>
  /\ pc = "call"
  /\ NoLocals
  /\ AgentIdle
  /\ DispatchIdle

\* one call of get_multiple_results on the response body `page`
GetMultipleResults ==
  /\ pc = "call"
  /\ Extract(page, count)
  /\ pc' = "return"
  /\ UNCHANGED agentvars
  /\ UNCHANGED dispatchvars

Next == GetMultipleResults

Spec == Init /\ [][Next]_vars

\* pages for the snippet cascade: titles and candidates of all four patterns
CascadeElements ==
  { Elem("h3", "class", << >>, X(5)),
    Elem("h3", "class", << >>, X(6)),
    Elem("div", "data-sncf", << >>, X(50)),
    Elem("div", "data-sncf", << >>, X(499)),
    Elem("div", "VwiC3b", << >>, X(30) \o Tag \o X(21)),
    Elem("span", "st", << >>, SignIn \o X(60)),
    Elem("div", "style", << >>, X(100)) }

CascadePages == UNION { [1..n -> CascadeElements] : n \in 0..MaxCascadeElems }

InitCascade ==
  /\ page \in CascadePages
  /\ count \in Counts
  /\ results = << >>
  /\ pc = "call"
  /\ NoLocals
  /\ AgentIdle
  /\ DispatchIdle

SpecCascade == InitCascade /\ [][Next]_vars

\* ------------------------------------------------- research_competitors
NumQueries == 4
AgentCount == 3

\* response bodies the dispatcher may return to the agent
Bodies ==
  { << >>,
    <<Elem("h3", "class", << >>, X(6)), Elem("p", "", << >>, X(80))>> }

DomainLists == { [i \in 1..n |-> i] : n \in 0..MaxDomains }

\* _extract_key_insight(results, category)
extract_key_insight(res, category) ==
  IF res = << >> THEN [form |-> "No recent data found", category |-> category]
  ELSE LET title == res[1].title
           description == res[1].description
       IN IF title # << >> /\ description # << >> /\ description # DESC_NA
          THEN [form |-> "title - description", title |-> title,
                description |-> Take(description, 400)]
          ELSE IF title # << >> THEN [form |-> "title", title |-> title]
          ELSE IF description # << >>
               THEN [form |-> "description", description |-> Take(description, 400)]
          ELSE [form |-> "Limited intelligence available", category |-> category]

\* _generate_summary
generate_summary(r) ==
  [market_position |-> extract_key_insight(r[1], "competitive positioning"),
   key_customers |-> extract_key_insight(r[2], "customer adoption"),
   recent_moves |-> extract_key_insight(r[3], "strategic activity"),
   product_focus |-> extract_key_insight(r[4], "product innovation")]

\* the dict research_company returns from its four result lists
Report(domain, r) ==
  [domain |-> domain, positioning |-> r[1], customers |-> r[2],
   strategic_moves |-> r[3], product_strategy |-> r[4],
   intelligence_summary |-> generate_summary(r)]

InitAgent ==
  /\ page = << >>
  /\ count = AgentCount
  /\ results = << >>
  /\ pc = "call"
  /\ NoLocals
  /\ domains \in DomainLists
  /\ generate_pdf \in BOOLEAN
  /\ di = 1
  /\ qi = 1
  /\ intel = << >>
  /\ reports = << >>
  /\ issued = {}
  /\ failed = {}
  /\ pdf_done = FALSE
  /\ apc = "research"
  /\ DispatchIdle

\* the end of the loop over domains: the PDF step and the return
EndOfDomain(reps) ==
  /\ di' = di + 1
  /\ qi' = 1
  /\ intel' = << >>
  /\ IF di = Len(domains)
     THEN /\ apc' = "done"
          /\ pdf_done' = (generate_pdf /\ reps # << >>)
     ELSE UNCHANGED <<apc, pdf_done>>

\* query qi of research_company(domains[di]) is dispatched and answered; after
\* the fourth the report is built and appended
QuerySucceeds ==
  /\ apc = "research"
  /\ di <= Len(domains)
  /\ \E body \in Bodies :
       /\ Extract(body, AgentCount)
       /\ pc' = "return"
       /\ issued' = issued \cup {<<di, qi>>}
       /\ UNCHANGED <<domains, generate_pdf, failed>>
       /\ UNCHANGED dispatchvars
       /\ IF qi < NumQueries
          THEN /\ qi' = qi + 1
               /\ intel' = Append(intel, get_multiple_results(body, AgentCount))
               /\ UNCHANGED <<di, reports, pdf_done, apc>>
          ELSE LET reps == Append(reports,
                             Report(domains[di],
                                    Append(intel, get_multiple_results(body, AgentCount))))
               IN /\ reports' = reps
                  /\ EndOfDomain(reps)

\* no try/except around research_company: the exception ends the whole run
QueryFails_mutant ==
  /\ apc = "research"
  /\ di <= Len(domains)
  /\ issued' = issued \cup {<<di, qi>>}
  /\ failed' = failed \cup {<<di, qi>>}
  /\ apc' = "done"
  /\ UNCHANGED <<domains, generate_pdf, di, qi, intel, reports, pdf_done>>
  /\ UNCHANGED callvars
  /\ UNCHANGED dispatchvars

\* the dispatch of query qi raises: the exception leaves research_company and
\* is caught by the loop of research_competitors, which goes on to the next
\* domain
QueryFails ==
  /\ apc = "research"
  /\ di <= Len(domains)
  /\ issued' = issued \cup {<<di, qi>>}
  /\ failed' = failed \cup {<<di, qi>>}
  /\ EndOfDomain(reports)
  /\ UNCHANGED <<domains, generate_pdf, reports>>
  /\ UNCHANGED callvars
  /\ UNCHANGED dispatchvars

\* research_competitors([]): no domain, no report, no PDF
ResearchNone ==
  /\ apc = "research"
  /\ domains = << >>
  /\ apc' = "done"
  /\ UNCHANGED <<domains, generate_pdf, di, qi, intel, reports, issued, failed, pdf_done>>
  /\ UNCHANGED callvars
  /\ UNCHANGED dispatchvars

NextAgent == QuerySucceeds \/ QueryFails \/ ResearchNone

SpecAgent == InitAgent /\ [][NextAgent]_vars

\* ------------------------------------------------ query and its callers
\* exceptions of requests.post (transport) and of raise_for_status (status)
DispatchErrors == {"Timeout", "ConnectionError", "HTTPError 401", "HTTPError 500"}

\* response bodies offered to a single call
CallBodies == {<< >>} \cup {<<e>> : e \in Elements} \cup Bodies

\* what one dispatch can meet: an error, a JSON object without 'body', or a
\* JSON object with a body
Responses ==
  [kind : DispatchErrors]
    \cup {[kind |-> "ok", has_body |-> FALSE]}
    \cup {[kind |-> "ok", has_body |-> TRUE, body |-> b] : b \in CallBodies}

\* response.get('body', '')
BodyOf(resp) == IF resp.has_body THEN resp.body ELSE << >>

Fields == {"title", "url", "description", "snippet"}

\* results[0].get(field, '-')
GetField(rec, f) ==
  CASE f = "title" -> [kind |-> "title", value |-> rec.title]
    [] f = "url" -> [kind |-> "url", value |-> rec.url]
    [] f = "description" -> [kind |-> "description", value |-> rec.description]
    [] OTHER -> [kind |-> "-"]

\* get_top_result on the list get_multiple_results(keyword, count=1) gave
get_top_result(res, f) == IF res = << >> THEN [kind |-> "-"] ELSE GetField(res[1], f)

\* an except clause around the dispatch that answers with an empty list
QueryOutcome_mutant(resp) ==
  IF resp.kind = "ok" THEN [raised |-> "", body |-> BodyOf(resp)]
  ELSE [raised |-> "", body |-> << >>]

\* query(): requests.post, raise_for_status, response.json(); an exception
\* is not caught anywhere in SerpClient
QueryOutcome(resp) ==
  IF resp.kind = "ok" THEN [raised |-> "", body |-> BodyOf(resp)]
  ELSE [raised |-> resp.kind, body |-> << >>]

TopCount == 1

InitCall ==
  /\ page = << >>
  /\ results = << >>
  /\ pc = "call"
  /\ NoLocals
  /\ AgentIdle
  /\ caller \in {"get_multiple_results", "get_top_result"}
  /\ field \in (IF caller = "get_top_result" THEN Fields ELSE {"url"})
  /\ count \in (IF caller = "get_top_result" THEN {TopCount} ELSE Counts)
  /\ response = NoResponse
  /\ posts = 0
  /\ raised = ""
  /\ ret = NoValue

\* one call of get_multiple_results or get_top_result: one dispatch, then
\* either the exception leaves the call or the body is extracted and the
\* value returned
Call ==
  /\ pc = "call"
  /\ \E resp \in Responses :
       LET out == QueryOutcome(resp) IN
       /\ response' = resp
       /\ posts' = posts + 1
       /\ raised' = out.raised
       /\ IF out.raised # ""
          THEN /\ pc' = "raised"
               /\ ret' = NoValue
               /\ UNCHANGED <<page, count, results, snippets, clean_titles,
                              clean_urls, clean_snippets, text_blocks, n_primary>>
          ELSE /\ Extract(out.body, count)
               /\ pc' = "return"
               /\ ret' = IF caller = "get_top_result"
                         THEN get_top_result(get_multiple_results(out.body, count), field)
                         ELSE [kind |-> "list", list |-> get_multiple_results(out.body, count)]
  /\ UNCHANGED <<caller, field>>
  /\ UNCHANGED agentvars

NextCall == Call

SpecCall == InitCall /\ [][NextCall]_vars

\* ================================================================= claims
Returned == pc = "return"

\* a record as the fallback pass builds it: title ending in "...", no url
FallbackStyle(r) ==
  /\ r.url = URL_NA
  /\ r.title # << >>
  /\ r.title[Len(r.title)].a = "."
  /\ r.title[Len(r.title)].n >= 3

\* C1: the returned list never has more than count records, whatever mix
\* of primary and fallback records it holds.
C1_AtMostCount == Returned => Len(results) <= count

C1_Witness ==
  /\ Returned /\ count >= 2 /\ Len(results) = count
  /\ n_primary >= 1 /\ n_primary < Len(results)

\* C2: every returned record, primary or fallback, has a title longer than
\* 5 characters.
C2_TitleLonger5 ==
  Returned => \A i \in DOMAIN results : StrLen(results[i].title) > 5

C2_Witness ==
  /\ Returned /\ n_primary >= 1 /\ Len(results) > n_primary
  /\ StrLen(results[1].title) = 6

\* C3: every returned description other than the placeholder has a length
\* L with 50 <= L < 500, from the snippet pool or from the fallback pass.
C3_DescriptionLen ==
  Returned => \A i \in DOMAIN results :
                results[i].description # DESC_NA
                  => /\ StrLen(results[i].description) >= 50
                     /\ StrLen(results[i].description) < 500

C3_Witness ==
  /\ Returned /\ n_primary >= 1 /\ Len(results) > n_primary
  /\ results[1].description # DESC_NA
  /\ StrLen(results[1].description) = 499

\* C4: no returned url contains "google.com", "gstatic.com" or
\* "youtube.com/redirect"; decoding entities after the blocklist check does
\* not produce such a url.
C4_NoBlockedUrl ==
  Returned => \A i \in DOMAIN results : ~Blocked(results[i].url)

C4_Witness ==
  /\ Returned
  /\ \E k \in DOMAIN page : page[k].href = BlockedHref
  /\ \E k \in DOMAIN page : page[k].href = EntityHref
  /\ \E i \in DOMAIN results : results[i].url = <<"https://", "google">>

\* the indices of the primary pass that carry a title longer than 5
PrimaryIdx ==
  {i \in 1..count : i <= Len(clean_titles) /\ StrLen(clean_titles[i]) > 5}

Rank(i) == Cardinality({j \in PrimaryIdx : j <= i})

\* C5: a primary record is emitted for index i < count exactly when the
\* i-th cleaned title exists and is longer than 5; it carries that title and
\* the url and snippet of the same index, or their placeholders; skipped
\* indices are not backfilled and nothing is shifted.
C5_Positional ==
  Returned =>
    /\ n_primary = Cardinality(PrimaryIdx)
    /\ Len(results) >= n_primary
    /\ \A i \in PrimaryIdx :
         results[Rank(i)] =
           Result(clean_titles[i],
                  IF i <= Len(clean_urls) THEN clean_urls[i] ELSE URL_NA,
                  IF i <= Len(clean_snippets) THEN clean_snippets[i] ELSE DESC_NA)

C5_Witness ==
  /\ Returned /\ count >= 2 /\ Len(clean_titles) >= 2
  /\ StrLen(clean_titles[1]) <= 5
  /\ 2 \in PrimaryIdx
  /\ Len(clean_urls) = 1
  /\ results[1].title = clean_titles[2]
  /\ results[1].url = URL_NA

CleanedPool == [i \in DOMAIN snippets |-> clean_text(snippets[i])]

KeepFrom50(c) == StrLen(c) >= 50 /\ StrLen(c) < 500 /\ ~HasStopWord(c)

KeepAbove50(c) == StrLen(c) > 50 /\ StrLen(c) < 500 /\ ~HasStopWord(c)

NoStopWordInPrimary ==
  \A i \in 1..Min(n_primary, Len(results)) : ~HasStopWord(results[i].description)

\* C6 as claimed: a pooled candidate is kept exactly when its cleaned
\* length L has 50 <= L < 500 and it holds no stoplist word; survivors keep
\* pool order; no primary description holds "sign in" in any letter case.
C6_Claimed ==
  Returned => /\ clean_snippets = SelectSeq(CleanedPool, KeepFrom50)
              /\ NoStopWordInPrimary

\* C6 amended: as claimed, with 50 < L < 500 (a candidate of exactly 50
\* characters is dropped).
C6_SnippetFilter ==
  Returned => /\ clean_snippets = SelectSeq(CleanedPool, KeepAbove50)
              /\ NoStopWordInPrimary

C6_Witness ==
  /\ Returned
  /\ \E i \in DOMAIN snippets : StrLen(CleanedPool[i]) = 50
  /\ \E i \in DOMAIN snippets :
       /\ HasStopWord(CleanedPool[i])
       /\ StrLen(CleanedPool[i]) > 50 /\ StrLen(CleanedPool[i]) < 500
  /\ Len(clean_snippets) = 1
  /\ StrLen(clean_snippets[1]) = 51

AllFallbackStyle == \A i \in DOMAIN results : FallbackStyle(results[i])

\* C7 as claimed: when the primary pass yields nothing and the page holds at
\* least count text blocks of length 80 to 400, exactly count fallback
\* records are returned.
C7_Claimed ==
  (Returned /\ n_primary = 0 /\ Len(TextBlocks(page)) >= count)
    => (Len(results) = count /\ AllFallbackStyle)

FirstBlocksClean ==
  \A k \in 1..Min(count, Len(TextBlocks(page))) :
    StrLen(clean_text(TextBlocks(page)[k])) > 50

\* C7 amended: as claimed, provided each of the first count blocks cleans
\* to more than 50 characters.
C7_FallbackActivation ==
  (Returned /\ n_primary = 0 /\ Len(TextBlocks(page)) >= count /\ FirstBlocksClean)
    => (Len(results) = count /\ AllFallbackStyle)

C7_Witness ==
  /\ Returned /\ count = 2 /\ title_pattern(page) = << >>
  /\ Len(TextBlocks(page)) >= 2 /\ FirstBlocksClean
  /\ Len(results) = 2 /\ AllFallbackStyle

\* the records after the primary ones
FallbackPart == SubSeq(results, n_primary + 1, Len(results))

Quota == count - n_primary

\* the record the fallback pass is to build from a text run
RecordOf(run) ==
  LET d == clean_text(run)
  IN Result(Merge(Take(d, 100) \o <<R(".", 3)>>), URL_NA, d)

RecordsOf(runs, k) == [i \in 1..Min(k, Len(runs)) |-> RecordOf(runs[i])]

RunBelow400(run) == StrLen(run) >= 80 /\ StrLen(run) < 400

RunUpTo400(run) == StrLen(run) >= 80 /\ StrLen(run) <= 400

CleansAbove50(run) == StrLen(clean_text(run)) > 50

\* C8 as claimed: with fewer than count primary records, the fallback
\* records are built from exactly the text runs of raw length 80 <= n < 400,
\* in scan order, one record per run until the quota is used.
C8_Claimed ==
  (Returned /\ page # << >> /\ n_primary < count)
    => FallbackPart = RecordsOf(SelectSeq(TextRuns(page), RunBelow400), Quota)

FirstCount(runs) == SubSeq(runs, 1, Min(count, Len(runs)))

\* C8 amended: the runs considered are the first count runs of raw length
\* 80 <= n <= 400, and of these only the runs that clean to more than 50
\* characters yield a record, one each until the quota is used.
C8_FallbackSynthesis ==
  (Returned /\ page # << >> /\ n_primary < count)
    => FallbackPart =
         RecordsOf(SelectSeq(FirstCount(SelectSeq(TextRuns(page), RunUpTo400)),
                             CleansAbove50),
                   Quota)

C8_Witness ==
  /\ Returned /\ n_primary < count
  /\ \E k \in 1..Min(count, Len(text_blocks)) : ~CleansAbove50(text_blocks[k])
  /\ \E i \in DOMAIN results :
       /\ i > n_primary
       /\ StrLen(results[i].description) = 400
       /\ StrLen(results[i].title) = 103

RECURSIVE IsSubSeq(_, _)
\* a is b with some members left out
IsSubSeq(a, b) ==
  IF a = << >> THEN TRUE
  ELSE IF b = << >> THEN FALSE
  ELSE IF a[1] = b[1] THEN IsSubSeq(Tail(a), Tail(b))
  ELSE IsSubSeq(a, Tail(b))

\* C9: primary records come first, in increasing title index; fallback
\* records follow in scan order; the fallback pass adds records only when
\* the primary pass left fewer than count, and never more than the rest of
\* the quota.
C9_OrderAndQuota ==
  Returned =>
    /\ n_primary <= Len(results)
    /\ IsSubSeq([i \in 1..n_primary |-> results[i].title],
                SubSeq(clean_titles, 1, Min(count, Len(clean_titles))))
    /\ \A i \in (n_primary + 1)..Len(results) : FallbackStyle(results[i])
    /\ IsSubSeq([i \in 1..(Len(results) - n_primary) |-> results[n_primary + i].description],
                [k \in DOMAIN text_blocks |-> clean_text(text_blocks[k])])
    /\ (Len(results) > n_primary => n_primary < count)
    /\ Len(results) - n_primary <= count - n_primary

C9_Witness ==
  /\ Returned /\ n_primary >= 1 /\ Len(results) >= n_primary + 2
  /\ results[Len(results)].description # results[Len(results) - 1].description

AgentDone == apc = "done"

\* C10: a failing query does not abort the other queries of the run: every
\* query of every domain is still issued, and every answered query has its
\* results in a report.
C10_QueryIsolation ==
  AgentDone =>
    /\ \A i \in DOMAIN domains : \A k \in 1..NumQueries : <<i, k>> \in issued
    /\ \A i \in DOMAIN domains :
         (\E k \in 1..NumQueries : <<i, k>> \in issued \ failed)
           => \E j \in DOMAIN reports : reports[j].domain = domains[i]

CallOver == pc \in {"return", "raised"}

\* C11 amended: a call dispatches exactly one query; when the dispatch fails the
\* same error reaches the caller, nothing is returned in its place (no list,
\* no '-') and no second dispatch is made; a dispatch that succeeds with an
\* empty or missing body gives the empty list (for get_top_result: '-')
\* without error, and a returned value always comes from a dispatch that
\* succeeded.
C11_ErrorsPropagate ==
  /\ posts <= 1
  /\ CallOver =>
       /\ posts = 1
       /\ response.kind \in DispatchErrors
            => (pc = "raised" /\ raised = response.kind /\ ret = NoValue)
       /\ (response.kind = "ok" /\ BodyOf(response) = << >>)
            => /\ pc = "return" /\ raised = ""
               /\ results = << >>
               /\ ret = IF caller = "get_top_result"
                        THEN [kind |-> "-"]
                        ELSE [kind |-> "list", list |-> << >>]
       /\ ret # NoValue => (response.kind = "ok" /\ raised = "")

\* C11 as claimed: the above, and for a positive count the empty list is
\* returned without error only when the body is empty or missing.
C11_Claimed ==
  /\ C11_ErrorsPropagate
  /\ (pc = "return" /\ raised = "" /\ count >= 1 /\ results = << >>)
       => BodyOf(response) = << >>

C11_Witness ==
  /\ pc = "raised"
  /\ caller = "get_top_result"
  /\ response.kind = "HTTPError 401"
  /\ raised = "HTTPError 401"
  /\ posts = 1

RECURSIVE PoolUpTo(_, _)
\* the matches of the first k snippet patterns, in pattern order
PoolUpTo(k, p) == IF k = 0 THEN << >> ELSE PoolUpTo(k - 1, p) \o snippet_patterns(k, p)

\* the list get_multiple_results would return with every pattern scanned
NoEarlyStopResults(p, c) ==
  IF p = << >> THEN << >>
  ELSE LET pool == PoolUpTo(NumPatterns, p)
           kept == SelectSeq([i \in DOMAIN pool |-> clean_text(pool[i])], SnippetOk)
           T == CleanTitles(p)
           res == FallbackPass(PrimaryLoop(1, Min(c, Len(T)), T, CleanUrls(p), kept, << >>),
                               p, c)
       IN SubSeq(res, 1, Min(c, Len(res)))

\* the patterns are tried in order into one pool and the scan stops after
\* the first pattern that brings the pool to 2 x count candidates
PoolAsScanned ==
  page # << >> =>
    \E k \in 1..NumPatterns :
      /\ snippets = PoolUpTo(k, page)
      /\ k < NumPatterns => Len(snippets) >= 2 * count
      /\ \A j \in 1..(k - 1) : Len(PoolUpTo(j, page)) < 2 * count

\* C12 as claimed: the pool is scanned as described and the returned list is
\* the list a scan of all four patterns would give.
C12_Claimed ==
  Returned => /\ PoolAsScanned
              /\ results = NoEarlyStopResults(page, count)

\* C12 amended: the pool is scanned as described; the returned list has the
\* records of the full scan in the same order, except that a primary record
\* may carry the description placeholder where the full scan supplies a
\* snippet; the lists are equal when no pattern was skipped or when the
\* kept snippets number at least min(count, number of titles).
C12_EarlyStop ==
  Returned =>
    LET full == NoEarlyStopResults(page, count) IN
    /\ PoolAsScanned
    /\ Len(results) = Len(full)
    /\ \A i \in DOMAIN results :
         /\ results[i].title = full[i].title
         /\ results[i].url = full[i].url
         /\ \/ results[i].description = full[i].description
            \/ (i <= n_primary /\ results[i].description = DESC_NA)
    /\ (\/ snippets = PoolUpTo(NumPatterns, page)
        \/ Len(clean_snippets) >= Min(count, Len(clean_titles)))
         => results = full

C12_Witness ==
  /\ Returned /\ count = 1
  /\ snippets # PoolUpTo(NumPatterns, page)
  /\ Len(snippets) = 2
  /\ clean_snippets = << >>
  /\ results # << >>
  /\ results[1].description = DESC_NA
  /\ NoEarlyStopResults(page, count)[1].description # DESC_NA

\* domain i had all four queries dispatched and answered
AllAnswered(i) == \A k \in 1..NumQueries : <<i, k>> \in issued \ failed

\* the positions of the domains whose four queries were all answered
AnsweredPositions == SelectSeq([i \in DOMAIN domains |-> i], AllAnswered)

\* C13: when research_competitors is over, reports holds one report for each
\* domain whose four queries all succeeded, in input order, and no other; a
\* failed query is the last one issued for its domain; every domain has its
\* first query issued; the PDF is generated only with at least one report.
C13_DomainIsolation ==
  AgentDone =>
    /\ Len(reports) = Len(AnsweredPositions)
    /\ \A j \in DOMAIN reports : reports[j].domain = domains[AnsweredPositions[j]]
    /\ \A i \in DOMAIN domains : \A k \in 1..NumQueries :
         <<i, k>> \in failed => \A k2 \in (k + 1)..NumQueries : <<i, k2>> \notin issued
    /\ \A i \in DOMAIN domains : <<i, 1>> \in issued
    /\ pdf_done => reports # << >>

C13_Witness ==
  /\ AgentDone /\ Len(domains) = 2
  /\ <<1, 2>> \in failed
  /\ <<1, 3>> \notin issued
  /\ AllAnswered(2)
  /\ Len(reports) = 1
  /\ reports[1].domain = domains[2]
  /\ pdf_done

====
